---------------------------- MODULE Spec2Model ----------------------------
(***************************************************************************)
(* plot_spm_folder.py: batch conversion of the .gwy scan files of the      *)
(* working directory into annotated PNG images, one per recognized         *)
(* channel.  The model follows process_gwy_files statement by statement:   *)
(* directory listing and filter, the early return on an empty listing,     *)
(* creation of the output folder, the per-file try/except around the       *)
(* parser, the per-channel filter, scaling, baseline subtraction, figure   *)
(* creation, colorbar, scale bar and savefig.                              *)
(*                                                                         *)
(* File names, channel names and output names are sequences of one-        *)
(* character strings, so that endswith, os.path.splitext and the f-string  *)
(* of the output name are computed as Python computes them.  Samples are   *)
(* decimal numbers m * 10^e (or NaN), so that the scale factors 1e9, 1e3   *)
(* and 1, numpy's min/max and the ".3g" format are computed, not assumed.  *)
(***************************************************************************)
EXTENDS Integers, Sequences, FiniteSets

VARIABLES
    dirlist,     \* os.listdir(os.getcwd()): the names in the working directory
    outDirPre,   \* "processed_images" existed before the run
    outDir,      \* "processed_images" exists now
    mkdirCalls,  \* number of os.makedirs calls made so far
    pc,          \* position in process_gwy_files
    files,       \* the filtered listing (line 93)
    fi,          \* index in files of the file of the current iteration
    channels,    \* items of the current file's channel dict not yet visited
    loaded,      \* outcome of gwy.load for each file visited so far
    stdout,      \* lines printed so far
    saved,       \* savefig calls that completed: (path, file, key)
    fig,         \* the figure of the most recent plt.subplots call
    nfigs,       \* number of figures created so far
    openFigs     \* numbers of the figures pyplot still holds open

vars == <<dirlist, outDirPre, outDir, mkdirCalls, pc, files, fi, channels,
          loaded, stdout, saved, fig, nfigs, openFigs>>

---------------------------------------------------------------------------
(* Bounds of the model.                                                    *)

MaxFiles == 2      \* names in the working directory
MaxChannels == 2   \* channels in one scan file
MaxSamples == 2    \* samples in one channel grid

---------------------------------------------------------------------------
(* Strings.                                                                *)

GwyExt == <<".", "g", "w", "y">>
PngExt == <<".", "p", "n", "g">>
ExtSep == "."

NameA      == <<"a">> \o GwyExt                       \* "a.gwy"
NameDot    == GwyExt                                   \* ".gwy"
NameDotGwy == GwyExt \o GwyExt                         \* ".gwy.gwy"
NameTxt    == <<"a", ".", "t", "x", "t">>             \* "a.txt"
NameNoDot  == <<"a", "g", "w", "y">>                  \* "agwy"

DirNames == {NameA, NameDot, NameDotGwy, NameTxt, NameNoDot}

KeyZSensor   == <<"Z", "S", "e", "n", "s", "o", "r">>
KeyPeakForce == <<"P", "e", "a", "k", " ", "F", "o", "r", "c", "e", " ",
                  "E", "r", "r", "o", "r">>
KeyPotential == <<"P", "o", "t", "e", "n", "t", "i", "a", "l">>
KeyAmplitude == <<"A", "m", "p", "l", "i", "t", "u", "d", "e">>

ChannelNames == {KeyZSensor, KeyPeakForce, KeyPotential, KeyAmplitude}

OutputFolderName == "processed_images"

\* Sequences over S without repetition, of length at most n.
InjSeqs(S, n) ==
    UNION { { s \in [1..k -> S] : \A i, j \in 1..k : s[i] = s[j] => i = j }
            : k \in 0..n }

\* str.endswith
EndsWith(s, suffix) ==
    /\ Len(s) >= Len(suffix)
    /\ SubSeq(s, Len(s) - Len(suffix) + 1, Len(s)) = suffix

\* str.rfind, 1-based; 0 when c does not occur (Python's -1).
RFind(s, c) ==
    LET hits == { i \in 1..Len(s) : s[i] = c }
    IN  IF hits = {} THEN 0 ELSE CHOOSE i \in hits : \A j \in hits : j <= i

\* os.path.splitext(p)[0] for a name without directory separator: the name
\* up to its last dot, unless only dots precede that dot.
SplitextBase(p) ==
    LET dotIndex == RFind(p, ExtSep)
    IN  IF dotIndex > 0 /\ \E i \in 1..(dotIndex - 1) : p[i] # ExtSep
        THEN SubSeq(p, 1, dotIndex - 1)
        ELSE p

\* f"{os.path.splitext(file)[0]}.{key}.png" joined to the output folder
OutputPath(file, key) ==
    [folder |-> OutputFolderName,
     name   |-> SplitextBase(file) \o <<ExtSep>> \o key \o PngExt]

---------------------------------------------------------------------------
(* Numbers: NaN, or m * 10^e kept normalised (m not a multiple of 10).     *)
(* NaN carries m = e = 0 so that all numbers are records of one shape.      *)

NaN == [nan |-> TRUE, m |-> 0, e |-> 0]
Num(m, e) == [nan |-> FALSE, m |-> m, e |-> e]

RECURSIVE Pow10(_)
Pow10(k) == IF k <= 0 THEN 1 ELSE 10 * Pow10(k - 1)

RECURSIVE Norm(_, _)
Norm(m, e) ==
    IF m = 0 THEN Num(0, 0)
    ELSE IF m % 10 = 0 THEN Norm(m \div 10, e + 1)
    ELSE Num(m, e)

MinInt(a, b) == IF a <= b THEN a ELSE b

\* the mantissa of x at exponent e, e <= x.e
Align(x, e) == x.m * Pow10(x.e - e)

Mul(x, y) ==
    IF x = NaN \/ y = NaN THEN NaN ELSE Norm(x.m * y.m, x.e + y.e)

Sub(x, y) ==
    IF x = NaN \/ y = NaN THEN NaN
    ELSE LET e == MinInt(x.e, y.e) IN Norm(Align(x, e) - Align(y, e), e)

LessEq(x, y) ==
    LET e == MinInt(x.e, y.e) IN Align(x, e) <= Align(y, e)

Zero == Num(0, 0)

\* ndarray.min(): NaN when any sample is NaN
ArrMin(a) ==
    IF \E i \in 1..Len(a) : a[i] = NaN THEN NaN
    ELSE LET i == CHOOSE i \in 1..Len(a) : \A j \in 1..Len(a) : LessEq(a[i], a[j])
         IN  a[i]

\* ndarray.max(): NaN when any sample is NaN
ArrMax(a) ==
    IF \E i \in 1..Len(a) : a[i] = NaN THEN NaN
    ELSE LET i == CHOOSE i \in 1..Len(a) : \A j \in 1..Len(a) : LessEq(a[j], a[i])
         IN  a[i]

\* array * scalar
ArrScale(a, s) == [i \in 1..Len(a) |-> Mul(a[i], s)]

\* array -= scalar
ArrShift(a, s) == [i \in 1..Len(a) |-> Sub(a[i], s)]

RECURSIVE NumDigits(_)
NumDigits(n) == IF n < 10 THEN 1 ELSE 1 + NumDigits(n \div 10)

Abs(n) == IF n < 0 THEN -n ELSE n

\* f"{x:.3g}": three significant digits, round-half-even; scientific
\* notation when the decimal exponent is below -4 or at least 3.  The text
\* is determined by (neg, digits, exp, sci); digits is the three-digit
\* significand, 0 for zero.
Fmt3g(x) ==
    IF x = NaN THEN [text |-> "nan", neg |-> FALSE, digits |-> 0,
                     exp |-> 0, sci |-> FALSE]
    ELSE IF x.m = 0 THEN [text |-> "num", neg |-> FALSE, digits |-> 0,
                          exp |-> 0, sci |-> FALSE]
    ELSE
      LET a    == Abs(x.m)
          nd   == NumDigits(a)
          k    == nd - 3
          q    == IF k > 0 THEN a \div Pow10(k) ELSE a * Pow10(-k)
          r    == IF k > 0 THEN a % Pow10(k) ELSE 0
          half == IF k > 0 THEN 5 * Pow10(k - 1) ELSE 1
          up   == k > 0 /\ (r > half \/ (r = half /\ q % 2 = 1))
          q1   == IF up THEN q + 1 ELSE q
          d    == IF q1 = 1000 THEN 100 ELSE q1
          X    == IF q1 = 1000 THEN x.e + nd ELSE x.e + nd - 1
      IN  [text |-> "num", neg |-> x.m < 0, digits |-> d, exp |-> X,
           sci |-> (X < -4 \/ X >= 3)]

---------------------------------------------------------------------------
(* The configuration table.                                                *)

params ==
    [k \in {KeyZSensor, KeyPeakForce, KeyPotential} |->
        IF k = KeyZSensor
        THEN [cmap |-> "afmhot", datascale |-> Num(1, 9),
              label |-> "Height [nm]"]
        ELSE IF k = KeyPeakForce
        THEN [cmap |-> "gray", datascale |-> Num(1, 3),
              label |-> "Peak Force [mV]"]
        ELSE [cmap |-> "inferno", datascale |-> Num(1, 0),
              label |-> "Potential [V]"]]

---------------------------------------------------------------------------
(* Inputs.                                                                 *)

\* sample values of a scan file: -1e-9, 1.234e-9 and NaN
SampleValues == {Num(-1, -9), Num(1234, -12), NaN}

\* channel.data, flattened; a data field holds at least one sample
Grids == UNION { [1..n -> SampleValues] : n \in 1..MaxSamples }

\* the keys of the channel dict of a file that parses
KeySets == { ks \in SUBSET ChannelNames : Cardinality(ks) <= MaxChannels }

\* The inputs of the batch specification (many files): the height channel,
\* one other recognized channel and one unrecognized channel, with
\* one-sample grids.  The inputs of the single-file specification are
\* KeySets and Grids.
BatchChannelNames == {KeyZSensor, KeyPotential, KeyAmplitude}
BatchKeySets == { ks \in SUBSET BatchChannelNames : Cardinality(ks) <= MaxChannels }
BatchGrids == [1..1 -> SampleValues]

NoFig == [id |-> 0]

NoFilesLine ==
    [kind |-> "info", text |-> "No .gwy files found in the folder.", file |-> <<>>]
ErrorLine(file) == [kind |-> "error", text |-> "Error loading", file |-> file]

---------------------------------------------------------------------------
Init ==
    /\ dirlist \in InjSeqs(DirNames, MaxFiles)
    /\ outDirPre \in BOOLEAN
    /\ outDir = outDirPre
    /\ mkdirCalls = 0
    /\ pc = "start"
    /\ files = <<>>
    /\ fi = 0
    /\ channels = {}
    /\ loaded = <<>>
    /\ stdout = <<>>
    /\ saved = {}
    /\ fig = NoFig
    /\ nfigs = 0
    /\ openFigs = {}

\* the list comprehension of line 93
GwyFiles(listing) == SelectSeq(listing, LAMBDA f : EndsWith(f, GwyExt))

\* Start without the early return of lines 95-97
StartNoEarlyReturn ==
    /\ pc = "start"
    /\ files' = GwyFiles(dirlist)
    /\ outDir' = TRUE
    /\ mkdirCalls' = mkdirCalls + 1
    /\ pc' = "files"
    /\ UNCHANGED <<dirlist, outDirPre, fi, channels, loaded, stdout, saved,
                   fig, nfigs, openFigs>>

\* Start without the os.makedirs call of line 101
StartNoMakedirs ==
    /\ pc = "start"
    /\ files' = GwyFiles(dirlist)
    /\ IF files' = <<>>
       THEN /\ stdout' = Append(stdout, NoFilesLine)
            /\ pc' = "done"
       ELSE /\ pc' = "files"
            /\ UNCHANGED stdout
    /\ UNCHANGED <<dirlist, outDirPre, outDir, mkdirCalls, fi, channels,
                   loaded, saved, fig, nfigs, openFigs>>

\* lines 93-101: list, filter, return early when nothing matches, else
\* create the output folder (exist_ok) and enter the loop
Start ==
    /\ pc = "start"
    /\ files' = GwyFiles(dirlist)
    /\ IF files' = <<>>
       THEN /\ stdout' = Append(stdout, NoFilesLine)
            /\ pc' = "done"
            /\ UNCHANGED <<outDir, mkdirCalls>>
       ELSE /\ outDir' = TRUE
            /\ mkdirCalls' = mkdirCalls + 1
            /\ pc' = "files"
            /\ UNCHANGED stdout
    /\ UNCHANGED <<dirlist, outDirPre, fi, channels, loaded, saved, fig,
                   nfigs, openFigs>>

\* lines 104-106: the next file parses; its channel dict is iterated next
LoadOk(keySets) ==
    /\ pc = "files"
    /\ fi < Len(files)
    /\ \E keys \in keySets :
          /\ channels' = keys
          /\ loaded' = Append(loaded, [file |-> files[fi + 1], ok |-> TRUE,
                                       keys |-> keys])
    /\ fi' = fi + 1
    /\ pc' = "channels"
    /\ UNCHANGED <<dirlist, outDirPre, outDir, mkdirCalls, files, stdout,
                   saved, fig, nfigs, openFigs>>

\* LoadFail with break in place of the continue of line 109
LoadFailBreak ==
    /\ pc = "files"
    /\ fi < Len(files)
    /\ loaded' = Append(loaded, [file |-> files[fi + 1], ok |-> FALSE,
                                 keys |-> {}])
    /\ stdout' = Append(stdout, ErrorLine(files[fi + 1]))
    /\ fi' = fi + 1
    /\ pc' = "done"
    /\ UNCHANGED <<dirlist, outDirPre, outDir, mkdirCalls, files, channels,
                   saved, fig, nfigs, openFigs>>

\* lines 104-109: the parser raises; the error is printed and the loop
\* continues with the next file
LoadFail ==
    /\ pc = "files"
    /\ fi < Len(files)
    /\ loaded' = Append(loaded, [file |-> files[fi + 1], ok |-> FALSE,
                                 keys |-> {}])
    /\ stdout' = Append(stdout, ErrorLine(files[fi + 1]))
    /\ fi' = fi + 1
    /\ pc' = "files"
    /\ UNCHANGED <<dirlist, outDirPre, outDir, mkdirCalls, files, channels,
                   saved, fig, nfigs, openFigs>>

\* the test of line 114 against a table that lacks the 'Potential' entry
RecognizedNoPotential(key) == key \in DOMAIN params \ {KeyPotential}

\* line 114
Recognized(key) == key \in DOMAIN params

\* lines 112-115: a channel that is not in params is skipped.  The order of
\* channels.items() is not fixed: any key not yet visited may come next.
SkipChannel ==
    /\ pc = "channels"
    /\ \E key \in channels :
          /\ ~Recognized(key)
          /\ channels' = channels \ {key}
    /\ UNCHANGED <<dirlist, outDirPre, outDir, mkdirCalls, pc, files, fi,
                   loaded, stdout, saved, fig, nfigs, openFigs>>

\* lines 117-122 with the subtraction of line 122 applied to every channel
DisplayedShiftAll(key, raw) ==
    LET data == ArrScale(raw, params[key].datascale)
    IN  ArrShift(data, ArrMin(data))

\* lines 117-122: scale, and for the height channel subtract the minimum
Displayed(key, raw) ==
    LET data == ArrScale(raw, params[key].datascale)
    IN  IF key = KeyZSensor THEN ArrShift(data, ArrMin(data)) ELSE data

\* lines 36-41: the colorbar's minimum and maximum text
CbarLabels(data) == [lo |-> Fmt3g(ArrMin(data)), hi |-> Fmt3g(ArrMax(data))]

\* lines 124-133: a new figure showing data, with colorbar and scale bar
NewFigure(key, raw) ==
    LET data == Displayed(key, raw)
    IN  [id       |-> nfigs + 1,
         file     |-> files[fi],
         key      |-> key,
         raw      |-> raw,
         data     |-> data,
         cmap     |-> params[key].cmap,
         cbar     |-> [labels |-> CbarLabels(data), label |-> params[key].label],
         scalebar |-> TRUE,
         saved    |-> FALSE]

\* lines 117-138: a recognized channel is rendered and its image saved
RenderChannel(grids) ==
    /\ pc = "channels"
    /\ \E key \in channels :
          /\ Recognized(key)
          /\ \E raw \in grids :
                fig' = [NewFigure(key, raw) EXCEPT !.saved = TRUE]
          /\ saved' = saved \cup {[path |-> OutputPath(files[fi], key),
                                   file |-> files[fi], key |-> key]}
          /\ channels' = channels \ {key}
    /\ nfigs' = nfigs + 1
    /\ openFigs' = openFigs \cup {nfigs + 1}
    /\ UNCHANGED <<dirlist, outDirPre, outDir, mkdirCalls, pc, files, fi,
                   loaded, stdout>>

\* RenderFail with the failure caught and reported like a parse failure
RenderFailCaught(grids) ==
    /\ pc = "channels"
    /\ \E key \in channels :
          /\ Recognized(key)
          /\ \E raw \in grids : fig' = NewFigure(key, raw)
          /\ channels' = channels \ {key}
    /\ nfigs' = nfigs + 1
    /\ openFigs' = openFigs \cup {nfigs + 1}
    /\ stdout' = Append(stdout, ErrorLine(files[fi]))
    /\ UNCHANGED <<dirlist, outDirPre, outDir, mkdirCalls, pc, files, fi,
                   loaded, saved>>

\* lines 117-138: savefig raises (disk full, permission denied, LaTeX
\* failure); nothing catches it, so process_gwy_files ends there
RenderFail(grids) ==
    /\ pc = "channels"
    /\ \E key \in channels :
          /\ Recognized(key)
          /\ \E raw \in grids : fig' = NewFigure(key, raw)
    /\ nfigs' = nfigs + 1
    /\ openFigs' = openFigs \cup {nfigs + 1}
    /\ pc' = "raised"
    /\ UNCHANGED <<dirlist, outDirPre, outDir, mkdirCalls, files, fi,
                   channels, loaded, stdout, saved>>

\* line 112: the channel dict is exhausted; back to the loop over files
EndChannels ==
    /\ pc = "channels"
    /\ channels = {}
    /\ pc' = "files"
    /\ UNCHANGED <<dirlist, outDirPre, outDir, mkdirCalls, files, fi,
                   channels, loaded, stdout, saved, fig, nfigs, openFigs>>

\* line 104: the listing is exhausted; process_gwy_files returns
Finish ==
    /\ pc = "files"
    /\ fi = Len(files)
    /\ pc' = "done"
    /\ UNCHANGED <<dirlist, outDirPre, outDir, mkdirCalls, files, fi,
                   channels, loaded, stdout, saved, fig, nfigs, openFigs>>

\* A directory of up to MaxFiles names.
Next ==
    \/ Start
    \/ LoadOk(BatchKeySets)
    \/ LoadFail
    \/ SkipChannel
    \/ RenderChannel(BatchGrids)
    \/ RenderFail(BatchGrids)
    \/ EndChannels
    \/ Finish

Spec == Init /\ [][Next]_vars

\* A directory of one name, whose scan file holds any channels and grids.
InitData ==
    /\ Init
    /\ Len(dirlist) = 1

NextData ==
    \/ Start
    \/ LoadOk(KeySets)
    \/ LoadFail
    \/ SkipChannel
    \/ RenderChannel(Grids)
    \/ RenderFail(Grids)
    \/ EndChannels
    \/ Finish

SpecData == InitData /\ [][NextData]_vars

---------------------------------------------------------------------------
(* Properties.                                                             *)

\* the discovered files, computed from the directory listing
HasGwy == \E i \in 1..Len(dirlist) : EndsWith(dirlist[i], GwyExt)

\* number of "Error loading <f>" lines printed
DiagCount(f) == Cardinality({ i \in 1..Len(stdout) : stdout[i] = ErrorLine(f) })

ImagesOf(f) == { r \in saved : r.file = f }

FailedLoads == { i \in 1..Len(loaded) : ~loaded[i].ok }

\* the (file, channel) pairs of the parsed files whose channel is in params
RecognizedPairs ==
    { <<loaded[i].file, k>> :
        i \in { j \in 1..Len(loaded) : loaded[j].ok },
        k \in DOMAIN params } \cap
    UNION { { <<loaded[i].file, k>> : k \in loaded[i].keys } : i \in 1..Len(loaded) }

SavedPairs == { <<r.file, r.key>> : r \in saved }

Finite(a) == \A i \in 1..Len(a) : a[i] # NaN

\* C1: every file that fails to parse gets exactly one diagnostic line naming
\* it and no image; the files are visited in listing order, a parse failure
\* is never what ends the run, and when the run returns every file of the
\* listing has been visited and every parsed file has its images.
C1_ParseFailureIsolated ==
    /\ Len(loaded) <= Len(files)
    /\ \A i \in 1..Len(loaded) :
          /\ loaded[i].file = files[i]
          /\ IF loaded[i].ok
             THEN DiagCount(files[i]) = 0
             ELSE DiagCount(files[i]) = 1 /\ ImagesOf(files[i]) = {}
    /\ files # <<>> => Len(stdout) = Cardinality(FailedLoads)
    /\ pc = "raised" => loaded[Len(loaded)].ok
    /\ pc = "done" =>
          /\ Len(loaded) = Len(files)
          /\ \A i \in 1..Len(loaded) :
                loaded[i].ok =>
                   { r.key : r \in ImagesOf(files[i]) } =
                   loaded[i].keys \cap DOMAIN params

C1_Witness ==
    /\ pc = "done"
    /\ Len(files) = 2
    /\ ~loaded[1].ok /\ loaded[2].ok
    /\ DiagCount(files[1]) = 1
    /\ ImagesOf(files[2]) # {}

C3_HeightMinIsZero ==
    (fig.id # 0 /\ fig.key = KeyZSensor) =>
       LET scaled == [i \in 1..Len(fig.raw) |-> Mul(fig.raw[i], Num(1, 9))]
       IN  /\ Len(fig.data) = Len(fig.raw)
           /\ \A i \in 1..Len(fig.raw) : fig.data[i] = Sub(scaled[i], ArrMin(scaled))
           /\ ArrMin(fig.data) = Zero

\* C3, narrowed to what the code does: the displayed minimum is 0 and the
\* displayed maximum the scaled range for every grid of the height channel
\* without NaN sample; a grid with a NaN sample is displayed as NaN
\* throughout, because ndarray.min() is then NaN.
C3_HeightMinIsZeroFinite ==
    (fig.id # 0 /\ fig.key = KeyZSensor) =>
       LET scaled == [i \in 1..Len(fig.raw) |-> Mul(fig.raw[i], Num(1, 9))]
       IN  /\ Len(fig.data) = Len(fig.raw)
           /\ \A i \in 1..Len(fig.raw) : fig.data[i] = Sub(scaled[i], ArrMin(scaled))
           /\ Finite(fig.raw) =>
                 /\ ArrMin(fig.data) = Zero
                 /\ ArrMax(fig.data) = Sub(ArrMax(scaled), ArrMin(scaled))
           /\ ~Finite(fig.raw) => \A i \in 1..Len(fig.data) : fig.data[i] = NaN

\* C4: for 'Peak Force Error' and 'Potential' each displayed sample is the
\* input sample times the configured scale factor, unshifted; the minimum
\* is subtracted for the height channel and for no other.
C4_OtherChannelsScaledOnly ==
    fig.id # 0 =>
       /\ fig.key \in {KeyZSensor, KeyPeakForce, KeyPotential}
       /\ fig.key = KeyPeakForce =>
             /\ Len(fig.data) = Len(fig.raw)
             /\ \A i \in 1..Len(fig.raw) : fig.data[i] = Mul(fig.raw[i], Num(1, 3))
       /\ fig.key = KeyPotential =>
             /\ Len(fig.data) = Len(fig.raw)
             /\ \A i \in 1..Len(fig.raw) : fig.data[i] = fig.raw[i]
       /\ (fig.key = KeyZSensor /\ Finite(fig.raw)) =>
             \A i \in 1..Len(fig.raw) :
                fig.data[i] = Mul(fig.raw[i], Num(1, 9)) <=>
                   ArrMin(ArrScale(fig.raw, Num(1, 9))) = Zero

C4_Witness ==
    /\ fig.id # 0 /\ fig.saved
    /\ fig.key = KeyPeakForce
    /\ fig.raw = <<Num(1234, -12), Num(-1, -9)>>
    /\ fig.data = <<Num(1234, -9), Num(-1, -6)>>

\* C5: with no name ending in '.gwy' in the directory, the run prints the
\* one informational line, parses nothing, writes nothing, creates nothing
\* and returns.
C5_EmptyListing ==
    (pc # "start" /\ ~HasGwy) =>
       /\ pc = "done"
       /\ stdout = <<NoFilesLine>>
       /\ loaded = <<>>
       /\ saved = {}
       /\ nfigs = 0
       /\ mkdirCalls = 0
       /\ outDir = outDirPre

C5_Witness ==
    /\ pc = "done"
    /\ Len(dirlist) = 2
    /\ ~HasGwy
    /\ stdout = <<NoFilesLine>>

\* C6 as stated: two distinct (file, channel) pairs never map to the same
\* output path, so no image of a run overwrites another.
C6_NoCollisions ==
    \A r1, r2 \in saved : r1.path = r2.path => r1 = r2

\* C7 as stated: the colorbar labels are the minimum and maximum of the
\* displayed array, so the height channel's minimum label is 0; every saved
\* figure carries a colorbar and a scale bar.
C7_CbarLabels ==
    fig.id # 0 =>
       /\ fig.cbar.labels.lo = Fmt3g(ArrMin(fig.data))
       /\ fig.cbar.labels.hi = Fmt3g(ArrMax(fig.data))
       /\ fig.key = KeyZSensor => fig.cbar.labels.lo = Fmt3g(Zero)
       /\ fig.cbar.label = params[fig.key].label
       /\ fig.scalebar

\* C7, narrowed to what the code does: the labels are the minimum and
\* maximum of the displayed array; the height channel's minimum label is 0
\* when its grid holds no NaN sample and 'nan', like the maximum label, when
\* it holds one.
C7_CbarLabelsFinite ==
    fig.id # 0 =>
       /\ fig.cbar.labels.lo = Fmt3g(ArrMin(fig.data))
       /\ fig.cbar.labels.hi = Fmt3g(ArrMax(fig.data))
       /\ (fig.key = KeyZSensor /\ Finite(fig.raw)) =>
             fig.cbar.labels.lo = Fmt3g(Zero)
       /\ (fig.key = KeyZSensor /\ ~Finite(fig.raw)) =>
             /\ fig.cbar.labels.lo = Fmt3g(NaN)
             /\ fig.cbar.labels.hi = Fmt3g(NaN)
       /\ fig.cbar.label = params[fig.key].label
       /\ fig.scalebar

\* C8 as stated: a figure is closed once its image is saved, so a saved
\* figure is not open and at most one figure is open at any time.
C8_FiguresReleased ==
    /\ (fig.id # 0 /\ fig.saved) => fig.id \notin openFigs
    /\ Cardinality(openFigs) <= 1

\* C9: a failure while rendering or saving ends process_gwy_files: the step
\* that raises writes no image and prints nothing, nothing happens after it,
\* a diagnostic line is printed only by a failed parse, and no file is
\* loaded twice.
C9_RenderFailureFatal ==
    [][ /\ pc = "raised" => UNCHANGED vars
        /\ pc' = "raised" =>
              /\ saved' = saved /\ stdout' = stdout /\ loaded' = loaded
              /\ fi' = fi /\ channels' = channels
              /\ ~fig'.saved
              /\ \A i \in 1..Len(stdout') : stdout'[i] # ErrorLine(fig'.file)
              /\ \A r \in saved' : <<r.file, r.key>> # <<fig'.file, fig'.key>>
        /\ (stdout' # stdout /\ files # <<>>) =>
              /\ pc = "files" /\ pc' = "files"
              /\ stdout' = Append(stdout, ErrorLine(files[fi + 1]))
              /\ saved' = saved /\ nfigs' = nfigs
        /\ loaded' # loaded =>
              /\ Len(loaded') = Len(loaded) + 1
              /\ fi' = fi + 1
        /\ saved \subseteq saved'
      ]_vars

C9_Witness ==
    /\ pc = "raised"
    /\ saved # {}
    /\ channels # {}
    /\ fi < Len(files)
    /\ stdout = <<>>

===========================================================================
